---- MODULE Spec2Model ----
(***************************************************************************)
(* A model of fhir-server-lite: the retry wrapper around the storage       *)
(* calls (app/utils/db.py), the Patient and Observation mappers            *)
(* (app/models), and the request handlers (app/routes) over a store of     *)
(* two tables.                                                             *)
(*                                                                         *)
(* Python dicts and table rows are functions whose domain is the set of    *)
(* keys that are present: a key outside the domain is a missing key of a   *)
(* document, and a None / NULL column of a row.  Lists are sequences.      *)
(* Strings that the code only compares are TLA+ strings; strings the code  *)
(* looks into (e-mail values, references, dates) are sequences of tokens.  *)
(***************************************************************************)
EXTENDS Integers, Sequences, FiniteSets, TLC

VARIABLES
    patients,       \* table "patients": the rows, in storage order
    observations,   \* table "observations": the rows, in storage order
    nextId,         \* the next fresh identifier (uuid4 never repeats)
    req,            \* the last request
    resp,           \* the response to it
    gone,           \* history: ids of the Patients deleted so far, and of the Observations they owned
    rt,             \* one call of a retry-wrapped storage operation, step by step
    sessions        \* per request in flight: where it is, and the opens and closes of its session

vars == <<patients, observations, nextId, req, resp, gone, rt, sessions>>

(***************************************************************************)
(* Bounds of the model.                                                    *)
(***************************************************************************)
MaxIds == 3         \* identifiers handed out in one behaviour
MaxCount == 3       \* largest count / offset a search request carries
MaxCalls == 2       \* wrapped storage calls one caller makes in a row
MaxRequests == 3    \* requests in flight at the same time

(***************************************************************************)
(* dict helpers                                                            *)
(***************************************************************************)
Empty == <<>>
Put(d, k, v) == [x \in (DOMAIN d) \cup {k} |-> IF x = k THEN v ELSE d[x]]
Del(d, k) == [x \in (DOMAIN d) \ {k} |-> d[x]]
Has(d, k) == k \in DOMAIN d
\* self.col = d.get(key): None when the key is missing
SetOrNone(row, col, d, key) == IF Has(d, key) THEN Put(row, col, d[key]) ELSE Del(row, col)
\* if key in d: self.col = d[key]
SetIfPresent(row, col, d, key) == IF Has(d, key) THEN Put(row, col, d[key]) ELSE row
\* truth value of d.get(key) for a list-valued key
Truthy(d, k) == Has(d, k) /\ d[k] # <<>>
\* truth value of d.get(key) for a string-valued key
TruthyStr(d, k) == Has(d, k) /\ d[k] # ""
InSeq(c, s) == \E i \in 1..Len(s) : s[i] = c
Min(a, b) == IF a < b THEN a ELSE b
Max(a, b) == IF a > b THEN a ELSE b

(***************************************************************************)
(* app/utils/db.py: with_db_retry.  An attempt of the wrapped call ends    *)
(* "ok" or raises an exception of some class.                              *)
(***************************************************************************)
MaxAttempts == 3
WaitSeconds == 2
ExcClasses == {"OperationalError", "IntegrityError", "InterfaceError"}
Outcomes == {"ok"} \cup ExcClasses
StorageOps == {"add", "commit", "refresh", "delete"}

\* a predicate that retries after an exception of any class
retry_if_exception(exc) == TRUE
\* retry=retry_if_exception_type(OperationalError)
retry_if_exception_type(exc) == exc = "OperationalError"

\* stop=stop_after_attempt(3)
stop_after_attempt(attempt) == attempt >= MaxAttempts

\* What the wrapper does once attempt number `attempt` ended with `outcome`.
RetryDecision(attempt, outcome) ==
    IF outcome = "ok" THEN "return"
    ELSE IF ~retry_if_exception_type(outcome) THEN "raise"
    ELSE IF stop_after_attempt(attempt) THEN "raise"
    ELSE "retry"

\* reraise=True: the exception object of the last attempt is raised as it is;
\* with reraise=False tenacity raises a RetryError that wraps it.
reraise_false(exc) == [class |-> "RetryError", attempt |-> exc.attempt, wraps |-> exc.class]
reraise(exc) == exc

RtIdle == [pc |-> "idle", op |-> "none", nth |-> 0, attempt |-> 0, calls |-> 0, waits |-> 0,
           slept |-> 0, hist |-> <<>>, raised |-> [class |-> "none", attempt |-> 0, wraps |-> "none"]]

\* A caller invokes safe_add / safe_commit / safe_refresh / safe_delete.
RetryBegin ==
    /\ rt.pc = "idle"
    /\ rt.nth < MaxCalls
    /\ \E op \in StorageOps :
         rt' = [RtIdle EXCEPT !.pc = "call", !.op = op, !.attempt = 1, !.nth = rt.nth + 1]
    /\ UNCHANGED <<patients, observations, nextId, req, resp, gone, sessions>>

\* One attempt: func(*args, **kwargs) runs and the wrapper decides.
RetryCall ==
    /\ rt.pc = "call"
    /\ \E o \in Outcomes :
         LET exc == [class |-> o, attempt |-> rt.attempt, wraps |-> "none"]
             dec == RetryDecision(rt.attempt, o)
         IN  rt' = [rt EXCEPT !.calls = @ + 1,
                              !.hist = Append(@, o),
                              !.pc = CASE dec = "return" -> "returned"
                                       [] dec = "raise" -> "raised"
                                       [] OTHER -> "wait",
                              !.raised = IF dec = "raise" THEN reraise(exc) ELSE @]
    /\ UNCHANGED <<patients, observations, nextId, req, resp, gone, sessions>>

\* wait=wait_fixed(2): the sleep between two attempts.
RetryWait ==
    /\ rt.pc = "wait"
    /\ rt' = [rt EXCEPT !.pc = "call", !.attempt = @ + 1, !.waits = @ + 1,
                        !.slept = @ + WaitSeconds]
    /\ UNCHANGED <<patients, observations, nextId, req, resp, gone, sessions>>

\* The call is over; the caller may make another.
RetryDone ==
    /\ rt.pc \in {"returned", "raised"}
    /\ rt' = [RtIdle EXCEPT !.nth = rt.nth]
    /\ UNCHANGED <<patients, observations, nextId, req, resp, gone, sessions>>

\* The result of a whole wrapped call whose attempts end as outs[1], outs[2], ...:
\* "ok", or the class of the exception the caller receives.
RECURSIVE RunRetryFrom(_, _)
RunRetryFrom(outs, attempt) ==
    LET dec == RetryDecision(attempt, outs[attempt])
    IN  IF dec = "retry" THEN RunRetryFrom(outs, attempt + 1)
        ELSE outs[attempt]
RunRetry(outs) == RunRetryFrom(outs, 1)


(***************************************************************************)
(* Dates.  A date text is the sequence of its dash-separated components,   *)
(* each a sequence of digits; a stored date is <<year, month, day>>.       *)
(***************************************************************************)
RECURSIVE DigitsToNat(_)
DigitsToNat(ds) ==
    IF ds = <<>> THEN 0
    ELSE 10 * DigitsToNat(SubSeq(ds, 1, Len(ds) - 1)) + ds[Len(ds)]

\* Column(Date): the store reads a year-month-day text, one- or two-digit
\* month and day alike, and refuses anything else.
DateParse(text) ==
    IF /\ Len(text) = 3
       /\ \A i \in 1..3 : text[i] # <<>>
       /\ DigitsToNat(text[2]) \in 1..12
       /\ DigitsToNat(text[3]) \in 1..31
    THEN [ok |-> TRUE,
          date |-> <<DigitsToNat(text[1]), DigitsToNat(text[2]), DigitsToNat(text[3])>>]
    ELSE [ok |-> FALSE, date |-> <<>>]

Pad(n, w) == [i \in 1..w |-> (n \div (10 ^ (w - i))) % 10]
\* date.isoformat(): YYYY-MM-DD
isoformat(date) == <<Pad(date[1], 4), Pad(date[2], 2), Pad(date[3], 2)>>

(***************************************************************************)
(* app/models/patient.py                                                   *)
(***************************************************************************)
Gender == {"male", "female", "other", "unknown"}

\* str(x).lower() of a boolean
PyStrLower(b) == IF b THEN "true" ELSE "false"

\* from_fhir's list comprehension over fhir_dict["telecom"]
TelecomKeep(t) == TruthyStr(t, "system") /\ Truthy(t, "value")
TelecomEntry(t) == [k \in {"system", "value", "use"} \cap DOMAIN t |-> t[k]]
NormalizeTelecom(telecom) ==
    LET kept == SelectSeq(telecom, TelecomKeep)
    IN  [i \in 1..Len(kept) |-> TelecomEntry(kept[i])]

\* a check that lets a document without resourceType pass
PatientTypePresentOnly(d) == Has(d, "resourceType") /\ d.resourceType # "Patient"
\* if fhir_dict.get("resourceType") != "Patient": raise ValueError
PatientTypeError(d) == ~(Has(d, "resourceType") /\ d.resourceType = "Patient")

\* Patient.from_fhir: the exception it raises, if any, and the record after it.
Patient_from_fhir(self, d) ==
    IF PatientTypeError(d) THEN [exc |-> "ValueError", row |-> self]
    ELSE LET r1 == SetIfPresent(self, "name", d, "name")
             r2 == IF Has(d, "telecom")
                   THEN Put(r1, "telecom", NormalizeTelecom(d.telecom))
                   ELSE r1
             r3 == Put(r2, "active", PyStrLower(IF Has(d, "active") THEN d.active ELSE TRUE))
             r4 == SetOrNone(r3, "gender", d, "gender")
             r5 == SetOrNone(r4, "birth_date", d, "birthDate")
             r6 == SetOrNone(r5, "address", d, "address")
         IN  [exc |-> "none", row |-> r6]

\* Patient.to_fhir, of a row read from the store
PatientDocument(row) ==
    LET r0 == [resourceType |-> "Patient", id |-> row.id, active |-> (row.active = "true")]
        r1 == IF Truthy(row, "name") THEN Put(r0, "name", row.name) ELSE r0
        r2 == IF TruthyStr(row, "gender") THEN Put(r1, "gender", row.gender) ELSE r1
        r3 == IF Has(row, "birth_date")
              THEN Put(r2, "birthDate", isoformat(row.birth_date)) ELSE r2
        r4 == IF Truthy(row, "telecom") THEN Put(r3, "telecom", row.telecom) ELSE r3
        r5 == IF Truthy(row, "address") THEN Put(r4, "address", row.address) ELSE r4
    IN  r5
\* the same with the empty members written out as empty lists
Patient_to_fhir_nulls(row) ==
    PatientDocument(row) @@ [name |-> <<>>, telecom |-> <<>>, address |-> <<>>]
Patient_to_fhir(row) == PatientDocument(row)

\* The INSERT / UPDATE of a patients row at flush: the columns take their
\* types (Enum(Gender), Date) or the statement fails.
PatientFlush(row) ==
    IF Has(row, "gender") /\ row.gender \notin Gender
    THEN [exc |-> "DataError", row |-> row]
    ELSE IF Has(row, "birth_date") /\ ~DateParse(row.birth_date).ok
    THEN [exc |-> "DataError", row |-> row]
    ELSE [exc |-> "none",
          row |-> IF Has(row, "birth_date")
                  THEN Put(row, "birth_date", DateParse(row.birth_date).date)
                  ELSE row]

(***************************************************************************)
(* app/routes/patients.py: create_patient's checks of the document         *)
(***************************************************************************)
IsEmailSystem(t) == Has(t, "system") /\ t.system = "email"
BadEmailValueAtOnly(t) == ~Truthy(t, "value") \/ ~InSeq("@", t.value)
BadEmailValue(t) == ~Truthy(t, "value") \/ ~InSeq("@", t.value) \/ ~InSeq(".", t.value)

\* TRUE when create_patient raises ValueError before it builds the record
IdentificationError(d) ==
    IF ~(Truthy(d, "name") \/ Truthy(d, "telecom") \/ Truthy(d, "identifier")) THEN TRUE
    ELSE IF /\ ~Truthy(d, "name")
            /\ Truthy(d, "telecom")
            /\ \A i \in 1..Len(d.telecom) : IsEmailSystem(d.telecom[i])
         THEN \E i \in 1..Len(d.telecom) : BadEmailValue(d.telecom[i])
         ELSE FALSE

(***************************************************************************)
(* app/db.py: get_db, the dependency of every handler.  A request enters   *)
(* get_db (db = SessionLocal(); yield db), its handler runs and leaves on  *)
(* one of its exit paths, and control comes back to get_db.                *)
(***************************************************************************)
Requests == 1..MaxRequests
\* how a handler ends: it returns, or raises HTTPException for a ValueError
\* (400), for a record not found (404) or for any other exception (500), or
\* lets an exception of a wrapped call through (delete_*)
ExitPaths == {"return", "validation", "not_found", "server_error", "unhandled"}
NoSession == [pc |-> "new", opened |-> 0, closed |-> 0, exit |-> "none"]

\* a generator that closes after the yield only, without try / finally
ClosesOnReturn(exit) == exit \in {"return"}
\* try: yield db  finally: db.close()
Closes(exit) == TRUE

\* db = SessionLocal(); yield db
get_db_yield(r) ==
    /\ sessions[r].pc = "new"
    /\ sessions' = [sessions EXCEPT ![r].pc = "handler", ![r].opened = @ + 1]
    /\ UNCHANGED <<patients, observations, nextId, req, resp, gone, rt>>

\* the handler of request r runs to one of its exits
handler_exit(r) ==
    /\ sessions[r].pc = "handler"
    /\ \E exit \in ExitPaths :
         sessions' = [sessions EXCEPT ![r].pc = "finally", ![r].exit = exit]
    /\ UNCHANGED <<patients, observations, nextId, req, resp, gone, rt>>

\* finally: db.close()
get_db_finally(r) ==
    /\ sessions[r].pc = "finally"
    /\ sessions' = [sessions EXCEPT ![r].pc = "done",
                                    ![r].closed = IF Closes(sessions[r].exit) THEN @ + 1 ELSE @]
    /\ UNCHANGED <<patients, observations, nextId, req, resp, gone, rt>>

(***************************************************************************)
(* The handlers' wrapped storage calls.  A script gives, for each wrapped  *)
(* call of one request, how each of its attempts ends.  What a wrapped     *)
(* call does to the store happens when the call returns: a commit that     *)
(* returns has written the session's changes, whichever attempt it was; a  *)
(* request that ends before its commit returns leaves the store as it was  *)
(* (get_db closes the session, which rolls back).                          *)
(***************************************************************************)
Run(o1, o2, o3) == <<o1, o2, o3>>
AllOk == Run("ok", "ok", "ok")
Recovers == Run("OperationalError", "OperationalError", "ok")
Exhausts == Run("OperationalError", "OperationalError", "OperationalError")
Breaks == Run("InterfaceError", "ok", "ok")
\* The scripts of a request that makes n wrapped calls: no fault at all, every
\* call recovering on its last attempt, or one call failing (the calls after
\* it are never made, the calls before it went well).
Scripts(n) ==
    {[i \in 1..n |-> AllOk], [i \in 1..n |-> Recovers]}
        \cup {[i \in 1..n |-> IF i = k THEN bad ELSE AllOk] :
                k \in 1..n, bad \in {Exhausts, Breaks}}
NoFaults(n) == {[i \in 1..n |-> AllOk]}

\* db.commit(): an attempt that reaches the statements fails when they do.
CommitRun(run, flushExc) ==
    [i \in 1..Len(run) |-> IF run[i] = "ok" /\ flushExc # "none" THEN flushExc ELSE run[i]]

Http(status, exc, body) == [status |-> status, exc |-> exc, body |-> body]

\* the except clauses of the create and update handlers:
\* except ValueError -> 400, except Exception -> 500
ExceptStatusAll500(exc) == 500
ExceptStatus(exc) == IF exc = "ValueError" THEN 400 ELSE 500

(***************************************************************************)
(* The store                                                               *)
(***************************************************************************)
\* the text of identifier n (the String primary key), as a one-piece text
IdText(n) == <<ToString(n)>>
Ids(table) == {table[i].id : i \in 1..Len(table)}
\* db.query(T).filter(T.id == id).first()
Lookup(table, id) == CHOOSE i \in 1..Len(table) : table[i].id = id
Replace(table, row) == [i \in 1..Len(table) |-> IF table[i].id = row.id THEN row ELSE table[i]]
\* query.offset(o).limit(k).all()
Page(rows, o, k) == SubSeq(rows, o + 1, Min(Len(rows), o + k))
DefaultCount == 10

\* the searchset of the serialised records `resources`
Bundle(resources, total, type) ==
    [resourceType |-> "Bundle", type |-> "searchset", total |-> total,
     entry |-> [i \in 1..Len(resources) |->
                  [resource |-> resources[i], fullUrl |-> <<type, resources[i].id>>]]]

(***************************************************************************)
(* app/routes/patients.py                                                  *)
(***************************************************************************)
\* POST /Patient/: what create_patient answers and whether the row is stored.
CreatePatientResult(d, sc, id) ==
    LET m == Patient_from_fhir(Empty, d)
        fl == PatientFlush(Put(m.row, "id", id))
        rAdd == RunRetry(sc[1])
        rCommit == RunRetry(CommitRun(sc[2], fl.exc))
        rRefresh == RunRetry(sc[3])
        no == [stored |-> FALSE, row |-> Empty]
    IN  IF IdentificationError(d) THEN [r |-> Http(ExceptStatus("ValueError"), "ValueError", Empty)] @@ no
        ELSE IF m.exc # "none" THEN [r |-> Http(ExceptStatus(m.exc), m.exc, Empty)] @@ no
        ELSE IF rAdd # "ok" THEN [r |-> Http(ExceptStatus(rAdd), rAdd, Empty)] @@ no
        ELSE IF rCommit # "ok" THEN [r |-> Http(ExceptStatus(rCommit), rCommit, Empty)] @@ no
        ELSE IF rRefresh # "ok"
        THEN [r |-> Http(ExceptStatus(rRefresh), rRefresh, Empty), stored |-> TRUE, row |-> fl.row]
        ELSE [r |-> Http(201, "none", Patient_to_fhir(fl.row)), stored |-> TRUE, row |-> fl.row]

create_patient(docs, scripts) ==
    /\ nextId <= MaxIds
    /\ \E d \in docs, sc \in scripts :
         LET res == CreatePatientResult(d, sc, nextId)
         IN  /\ patients' = IF res.stored THEN Append(patients, res.row) ELSE patients
             /\ nextId' = IF res.stored THEN nextId + 1 ELSE nextId
             /\ req' = [op |-> "create", type |-> "Patient", doc |-> d, faults |-> sc]
             /\ resp' = res.r
    /\ UNCHANGED <<observations, gone, rt, sessions>>

\* PUT /Patient/{id}
UpdatePatientResult(old, d, sc) ==
    LET m == Patient_from_fhir(old, d)
        fl == PatientFlush(m.row)
        rCommit == RunRetry(CommitRun(sc[1], fl.exc))
        rRefresh == RunRetry(sc[2])
        no == [stored |-> FALSE, row |-> old]
    IN  IF m.exc # "none" THEN [r |-> Http(ExceptStatus(m.exc), m.exc, Empty)] @@ no
        ELSE IF rCommit # "ok" THEN [r |-> Http(ExceptStatus(rCommit), rCommit, Empty)] @@ no
        ELSE IF rRefresh # "ok"
        THEN [r |-> Http(ExceptStatus(rRefresh), rRefresh, Empty), stored |-> TRUE, row |-> fl.row]
        ELSE [r |-> Http(200, "none", Patient_to_fhir(fl.row)), stored |-> TRUE, row |-> fl.row]

update_patient(docs, scripts) ==
    /\ \E id \in 1..MaxIds, d \in docs, sc \in scripts :
         /\ req' = [op |-> "update", type |-> "Patient", id |-> id, doc |-> d,
                    faults |-> sc]
         /\ IF id \notin Ids(patients)
            THEN /\ resp' = Http(404, "HTTPException", Empty)
                 /\ patients' = patients
            ELSE LET res == UpdatePatientResult(patients[Lookup(patients, id)], d, sc)
                 IN  /\ resp' = res.r
                     /\ patients' = IF res.stored THEN Replace(patients, res.row) ELSE patients
    /\ UNCHANGED <<observations, nextId, gone, rt, sessions>>

\* GET /Patient/{id}
GetPatientResult(table, id) ==
    IF id \notin Ids(table) THEN Http(404, "HTTPException", Empty)
    ELSE Http(200, "none", Patient_to_fhir(table[Lookup(table, id)]))

get_patient ==
    /\ \E id \in 1..MaxIds :
         /\ req' = [op |-> "read", type |-> "Patient", id |-> id]
         /\ resp' = GetPatientResult(patients, id)
    /\ UNCHANGED <<patients, observations, nextId, gone, rt, sessions>>

\* DELETE /Patient/{id}: the status for an id that is not stored
DeleteAbsentNotFound == Http(404, "HTTPException", Empty)
DeleteAbsent == Http(204, "none", Empty)

\* relationship(..., cascade="all, delete-orphan"): the Observations that go with Patient id
CascadeNone(obs, id) == {}
Cascade(obs, id) ==
    {obs[i].id : i \in {j \in 1..Len(obs) : obs[j].subject_reference = IdText(id)}}

\* What delete_patient / delete_observation answers for a stored record:
\* no handler catches what safe_db_operation raises, so the framework answers 500.
DeleteResultSwallowed(sc) ==
    LET rDelete == RunRetry(sc[1])
        rCommit == RunRetry(sc[2])
    IN  IF rDelete # "ok" THEN Http(204, rDelete, Empty)
        ELSE IF rCommit # "ok" THEN Http(204, rCommit, Empty)
        ELSE Http(204, "none", Empty)
DeleteResult(sc) ==
    LET rDelete == RunRetry(sc[1])
        rCommit == RunRetry(sc[2])
    IN  IF rDelete # "ok" THEN Http(500, rDelete, Empty)
        ELSE IF rCommit # "ok" THEN Http(500, rCommit, Empty)
        ELSE Http(204, "none", Empty)

delete_patient(scripts) ==
    /\ \E id \in 1..MaxIds, sc \in scripts :
         /\ req' = [op |-> "delete", type |-> "Patient", id |-> id,
                    stored |-> id \in Ids(patients)]
         /\ IF id \notin Ids(patients)
            THEN /\ resp' = DeleteAbsent
                 /\ UNCHANGED <<patients, observations, gone>>
            ELSE LET r == DeleteResult(sc)
                     owned == Cascade(observations, id)
                     KeepP(row) == row.id # id
                     KeepO(row) == row.id \notin owned
                 IN  /\ resp' = r
                     /\ IF r.status = 204
                        THEN /\ patients' = SelectSeq(patients, KeepP)
                             /\ observations' = SelectSeq(observations, KeepO)
                             /\ gone' = [patients |-> gone.patients \cup {id},
                                         observations |->
                                           gone.observations \cup
                                             {o \in Ids(observations) :
                                                observations[Lookup(observations, o)]
                                                    .subject_reference = IdText(id)}]
                        ELSE UNCHANGED <<patients, observations, gone>>
    /\ UNCHANGED <<nextId, rt, sessions>>

\* GET /Patient/: the filters of search_patients.  A parameter that is missing
\* (or empty) adds no filter; contains() on a JSON column is taken as: some
\* element of the list has the given members.
PatientMatches(row, q) ==
    /\ Truthy(q, "email") =>
         /\ Has(row, "telecom")
         /\ \E i \in 1..Len(row.telecom) :
              /\ IsEmailSystem(row.telecom[i])
              /\ Has(row.telecom[i], "value") /\ row.telecom[i].value = q.email
    /\ TruthyStr(q, "family") =>
         /\ Has(row, "name")
         /\ \E i \in 1..Len(row.name) :
              Has(row.name[i], "family") /\ row.name[i].family = q.family
    /\ TruthyStr(q, "given") =>
         /\ Has(row, "name")
         /\ \E i \in 1..Len(row.name) :
              Has(row.name[i], "given") /\ InSeq(q.given, row.name[i].given)
    /\ TruthyStr(q, "gender") => Has(row, "gender") /\ row.gender = q.gender
    /\ Truthy(q, "birth_date") =>
         Has(row, "birth_date") /\ row.birth_date = DateParse(q.birth_date).date

\* total = query.count(); query.offset(_offset).limit(_count).all()
PageOffByOne(rows, q) ==
    Page(rows, IF Has(q, "offset") THEN q.offset ELSE 0,
         (IF Has(q, "count") THEN q.count ELSE DefaultCount) + 1)
PageOf(rows, q) ==
    Page(rows, IF Has(q, "offset") THEN q.offset ELSE 0,
         IF Has(q, "count") THEN q.count ELSE DefaultCount)

SearchPatientsResult(table, q) ==
    LET Match(row) == PatientMatches(row, q)
        rows == SelectSeq(table, Match)
        page == PageOf(rows, q)
    IN  Http(200, "none",
             Bundle([i \in 1..Len(page) |-> Patient_to_fhir(page[i])], Len(rows), "Patient"))

search_patients(queries) ==
    /\ \E q \in queries :
         /\ req' = [op |-> "search", type |-> "Patient", query |-> q]
         /\ resp' = SearchPatientsResult(patients, q)
    /\ UNCHANGED <<patients, observations, nextId, gone, rt, sessions>>

(***************************************************************************)
(* app/models/observation.py.  A reference is the sequence of its pieces:  *)
(* PFX is the text "Patient/", IdText(n) the text of identifier n, and     *)
(* Junk some other text.                                                   *)
(***************************************************************************)
PFX == "Patient/"
Junk == "zzz"
ObservationStatus == {"registered", "preliminary", "final", "amended", "cancelled",
                      "entered-in-error"}

\* s.startswith("Patient/")
StartsWithPrefix(s) == s # <<>> /\ Head(s) = PFX
\* the text of s up to its first "Patient/"
RECURSIVE BeforePrefix(_)
BeforePrefix(s) ==
    IF s = <<>> \/ Head(s) = PFX THEN <<>> ELSE <<Head(s)>> \o BeforePrefix(Tail(s))
\* s.split("Patient/")[1], for s that starts with "Patient/"
SplitSecond(s) == BeforePrefix(Tail(s))

\* fhir_dict.get("subject", {}).get("reference", "")
SubjectRef(d) ==
    IF Has(d, "subject") /\ Has(d.subject, "reference") THEN d.subject.reference ELSE <<>>

ObservationTypeError(d) == ~(Has(d, "resourceType") /\ d.resourceType = "Observation")

\* Observation.from_fhir
Observation_from_fhir(self, d) ==
    IF ObservationTypeError(d) THEN [exc |-> "ValueError", row |-> self]
    ELSE LET r1 == SetOrNone(self, "status", d, "status")
             r2 == SetOrNone(r1, "category", d, "category")
             r3 == SetOrNone(r2, "code", d, "code")
             r4 == IF StartsWithPrefix(SubjectRef(d))
                   THEN Put(r3, "subject_reference", SplitSecond(SubjectRef(d)))
                   ELSE r3
             r5 == SetIfPresent(r4, "effective_datetime", d, "effectiveDateTime")
             r6 == SetIfPresent(r5, "value_quantity", d, "valueQuantity")
             r7 == SetIfPresent(r6, "reference_range", d, "referenceRange")
         IN  [exc |-> "none", row |-> r7]

\* Observation.to_fhir, of a row read from the store (a None member is left out here)
Observation_to_fhir(row) ==
    LET r0 == [resourceType |-> "Observation", id |-> row.id, status |-> row.status,
               subject |-> [reference |-> <<PFX>> \o row.subject_reference]]
        r1 == SetIfPresent(r0, "category", row, "category")
        r2 == SetIfPresent(r1, "code", row, "code")
        r3 == IF Has(row, "effective_datetime")
              THEN Put(r2, "effectiveDateTime", isoformat(row.effective_datetime)) ELSE r2
        r4 == IF Truthy(row, "value_quantity")
              THEN Put(r3, "valueQuantity", row.value_quantity) ELSE r3
        r5 == IF Truthy(row, "reference_range")
              THEN Put(r4, "referenceRange", row.reference_range) ELSE r4
    IN  r5

\* ForeignKey("patients.id"): the reference is the id of a stored Patient
ForeignKeyHolds(row, pats) == \E id \in Ids(pats) : row.subject_reference = IdText(id)

\* The INSERT / UPDATE of an observations row at flush: status and
\* subject_reference are NOT NULL, status is an Enum, subject_reference a
\* foreign key, effective_datetime a timestamp.  A None in a JSON column is
\* stored as JSON null, so code's nullable=False refuses nothing.
\* The timestamp is read from its text when from_fhir has just assigned it.
ObservationFlush(row, assigned, pats) ==
    IF ~Has(row, "status") \/ ~Has(row, "subject_reference")
    THEN [exc |-> "IntegrityError", row |-> row]
    ELSE IF row.status \notin ObservationStatus
    THEN [exc |-> "DataError", row |-> row]
    ELSE IF ~ForeignKeyHolds(row, pats)
    THEN [exc |-> "IntegrityError", row |-> row]
    ELSE IF assigned /\ ~DateParse(row.effective_datetime).ok
    THEN [exc |-> "DataError", row |-> row]
    ELSE [exc |-> "none",
          row |-> IF assigned
                  THEN Put(row, "effective_datetime", DateParse(row.effective_datetime).date)
                  ELSE row]

(***************************************************************************)
(* app/routes/observations.py                                              *)
(***************************************************************************)
\* POST /Observation/
CreateObservationResult(d, sc, id, pats) ==
    LET m == Observation_from_fhir(Empty, d)
        fl == ObservationFlush(Put(m.row, "id", id), Has(d, "effectiveDateTime"), pats)
        rAdd == RunRetry(sc[1])
        rCommit == RunRetry(CommitRun(sc[2], fl.exc))
        rRefresh == RunRetry(sc[3])
        no == [stored |-> FALSE, row |-> Empty]
    IN  IF m.exc # "none" THEN [r |-> Http(ExceptStatus(m.exc), m.exc, Empty)] @@ no
        ELSE IF rAdd # "ok" THEN [r |-> Http(ExceptStatus(rAdd), rAdd, Empty)] @@ no
        ELSE IF rCommit # "ok" THEN [r |-> Http(ExceptStatus(rCommit), rCommit, Empty)] @@ no
        ELSE IF rRefresh # "ok"
        THEN [r |-> Http(ExceptStatus(rRefresh), rRefresh, Empty), stored |-> TRUE, row |-> fl.row]
        ELSE [r |-> Http(201, "none", Observation_to_fhir(fl.row)),
              stored |-> TRUE, row |-> fl.row]

create_observation(docs, scripts) ==
    /\ nextId <= MaxIds
    /\ \E d \in docs, sc \in scripts :
         LET res == CreateObservationResult(d, sc, nextId, patients)
         IN  /\ observations' = IF res.stored THEN Append(observations, res.row)
                                ELSE observations
             /\ nextId' = IF res.stored THEN nextId + 1 ELSE nextId
             /\ req' = [op |-> "create", type |-> "Observation", doc |-> d, faults |-> sc]
             /\ resp' = res.r
    /\ UNCHANGED <<patients, gone, rt, sessions>>

\* PUT /Observation/{id}
UpdateObservationResult(old, d, sc, pats) ==
    LET m == Observation_from_fhir(old, d)
        fl == ObservationFlush(m.row, Has(d, "effectiveDateTime"), pats)
        rCommit == RunRetry(CommitRun(sc[1], fl.exc))
        rRefresh == RunRetry(sc[2])
        no == [stored |-> FALSE, row |-> old]
    IN  IF m.exc # "none" THEN [r |-> Http(ExceptStatus(m.exc), m.exc, Empty)] @@ no
        ELSE IF rCommit # "ok" THEN [r |-> Http(ExceptStatus(rCommit), rCommit, Empty)] @@ no
        ELSE IF rRefresh # "ok"
        THEN [r |-> Http(ExceptStatus(rRefresh), rRefresh, Empty), stored |-> TRUE, row |-> fl.row]
        ELSE [r |-> Http(200, "none", Observation_to_fhir(fl.row)),
              stored |-> TRUE, row |-> fl.row]

update_observation(docs, scripts) ==
    /\ \E id \in 1..MaxIds, d \in docs, sc \in scripts :
         /\ req' = [op |-> "update", type |-> "Observation", id |-> id, doc |-> d,
                    faults |-> sc]
         /\ IF id \notin Ids(observations)
            THEN /\ resp' = Http(404, "HTTPException", Empty)
                 /\ observations' = observations
            ELSE LET res == UpdateObservationResult(observations[Lookup(observations, id)],
                                                    d, sc, patients)
                 IN  /\ resp' = res.r
                     /\ observations' = IF res.stored THEN Replace(observations, res.row)
                                        ELSE observations
    /\ UNCHANGED <<patients, nextId, gone, rt, sessions>>

\* GET /Observation/{id}
GetObservationResult(table, id) ==
    IF id \notin Ids(table) THEN Http(404, "HTTPException", Empty)
    ELSE Http(200, "none", Observation_to_fhir(table[Lookup(table, id)]))

get_observation ==
    /\ \E id \in 1..MaxIds :
         /\ req' = [op |-> "read", type |-> "Observation", id |-> id]
         /\ resp' = GetObservationResult(observations, id)
    /\ UNCHANGED <<patients, observations, nextId, gone, rt, sessions>>

\* DELETE /Observation/{id}
delete_observation(scripts) ==
    /\ \E id \in 1..MaxIds, sc \in scripts :
         /\ req' = [op |-> "delete", type |-> "Observation", id |-> id,
                    stored |-> id \in Ids(observations)]
         /\ IF id \notin Ids(observations)
            THEN /\ resp' = DeleteAbsent
                 /\ observations' = observations
            ELSE LET r == DeleteResult(sc)
                     KeepO(row) == row.id # id
                 IN  /\ resp' = r
                     /\ observations' = IF r.status = 204 THEN SelectSeq(observations, KeepO)
                                        ELSE observations
    /\ UNCHANGED <<patients, nextId, gone, rt, sessions>>

\* GET /Observation/: the filters of search_observations
PatientParam(q) == IF StartsWithPrefix(q.patient) THEN SplitSecond(q.patient) ELSE q.patient
ObservationMatches(row, q) ==
    /\ Truthy(q, "patient") => row.subject_reference = PatientParam(q)
    /\ TruthyStr(q, "category") =>
         /\ Has(row, "category")
         /\ \E i \in 1..Len(row.category) :
              \E j \in 1..Len(row.category[i].coding) :
                 row.category[i].coding[j].code = q.category
    /\ TruthyStr(q, "code") =>
         /\ Has(row, "code")
         /\ \E i \in 1..Len(row.code.coding) : row.code.coding[i].code = q.code
    /\ Truthy(q, "date") =>
         Has(row, "effective_datetime") /\ row.effective_datetime = DateParse(q.date).date

SearchObservationsResult(table, q) ==
    LET Match(row) == ObservationMatches(row, q)
        rows == SelectSeq(table, Match)
        page == PageOf(rows, q)
    IN  Http(200, "none",
             Bundle([i \in 1..Len(page) |-> Observation_to_fhir(page[i])], Len(rows),
                    "Observation"))

search_observations(queries) ==
    /\ \E q \in queries :
         /\ req' = [op |-> "search", type |-> "Observation", query |-> q]
         /\ resp' = SearchObservationsResult(observations, q)
    /\ UNCHANGED <<patients, observations, nextId, gone, rt, sessions>>

(***************************************************************************)
(* Requests                                                                *)
(***************************************************************************)
Smith == [family |-> "Smith", given |-> <<"Ann">>]
MailOk == <<"a", "@", "b", ".", "c">>
MailNoDot == <<"a", "@", "b">>
MailNoAt == <<"a", ".", "b">>
Phone == <<"5", "5", "5">>
Pt == [resourceType |-> "Patient"]

\* the Patient documents of the server specifications
PDocName == Pt @@ [name |-> <<Smith>>, gender |-> "male"]
PDocMail == Pt @@ [telecom |-> <<[system |-> "email", value |-> MailOk]>>]
PDocIdentifier == Pt @@ [identifier |-> <<[value |-> "mrn-1"]>>, gender |-> "female"]
PDocEmptyName == Pt @@ [name |-> <<>>]
PatientDocs == {PDocName, PDocMail, PDocIdentifier, PDocEmptyName}

Code1 == [coding |-> <<[system |-> "loinc", code |-> "8867-4"]>>]
Day1 == <<<<2, 0, 2, 4>>, <<0, 1>>, <<0, 5>>>>
Ob == [resourceType |-> "Observation", status |-> "final", code |-> Code1]

\* the subject references: well formed, bare, and with a second "Patient/" in it
References ==
    {<<PFX>> \o IdText(n) : n \in 1..MaxIds} \cup {IdText(1)}
        \cup {<<PFX>> \o IdText(n) \o <<PFX, Junk>> : n \in 1..MaxIds}
WithSubject(d) == {d} \cup {d @@ [subject |-> [reference |-> r]] : r \in References}
SubjectDocs == WithSubject(Ob)
ObservationDocs == SubjectDocs \cup WithSubject(Ob @@ [effectiveDateTime |-> Day1])

\* the Patient documents of the creation specification: every way of
\* identifying (or not) a Patient, then every way of describing one
TelSystems == {"email", "phone"}
TelValues == {<<>>, MailOk, MailNoDot, MailNoAt}
TelEntries ==
    {[system |-> sy, value |-> v] : sy \in TelSystems, v \in TelValues}
        \cup {[system |-> sy] : sy \in TelSystems}
        \cup {[value |-> v] : v \in TelValues}
        \cup {[system |-> "phone", value |-> Phone, use |-> "home"],
              [system |-> "email", value |-> MailOk, rank |-> "1"]}
PairEntries == {[system |-> "email", value |-> MailOk],
                [system |-> "email", value |-> MailNoDot],
                [system |-> "phone", value |-> Phone]}
Telecoms == {<<>>} \cup {<<t>> : t \in TelEntries}
                \cup {<<t, u>> : t \in PairEntries, u \in PairEntries}
Opt(d, key, values) == {d} \cup {d @@ [k \in {key} |-> v] : v \in values}
OptAll(ds, key, values) == UNION {Opt(d, key, values) : d \in ds}
DayShort == <<<<2, 0, 2, 4>>, <<1>>, <<5>>>>
YearOnly == <<<<2, 0, 2, 4>>>>
Home == [city |-> "Cluj"]
IdentifyingDocs ==
    OptAll(OptAll(OptAll({Empty, Pt, [resourceType |-> "Observation"]},
                         "name", {<<>>, <<Smith>>}),
                  "telecom", Telecoms),
           "identifier", {<<>>, <<[value |-> "mrn-1"]>>})
DescribingDocs ==
    OptAll(OptAll(OptAll(OptAll(OptAll({Pt @@ [name |-> <<Smith>>]},
                                       "telecom", {<<[system |-> "phone"]>>,
                                                   <<[system |-> "phone", value |-> Phone]>>}),
                                "active", {TRUE, FALSE}),
                         "gender", {"male", "martian"}),
                  "birthDate", {Day1, DayShort, YearOnly}),
           "address", {<<>>, <<Home>>})
CreationDocs == IdentifyingDocs \cup DescribingDocs

\* the search requests
Paging == OptAll(Opt(Empty, "count", 0..MaxCount), "offset", 0..MaxCount)
WithPaging(qs) == {q @@ pg : q \in qs, pg \in Paging}
PatientQueries ==
    WithPaging({Empty, [gender |-> "male"], [email |-> MailOk, family |-> ""],
                [family |-> "Smith", given |-> "Ann"]})
ObservationQueries ==
    WithPaging({Empty, [patient |-> <<PFX>> \o IdText(1)], [patient |-> IdText(1), code |-> "8867-4"]})

NoReq == [op |-> "none"]
NoResp == [status |-> 0]

InitStore ==
    /\ patients = <<>>
    /\ observations = <<>>
    /\ nextId = 1
    /\ req = NoReq
    /\ resp = NoResp
    /\ gone = [patients |-> {}, observations |-> {}]
    /\ sessions = [r \in Requests |-> NoSession]

InitRetry == InitStore /\ rt = RtIdle
NextRetry == RetryBegin \/ RetryCall \/ RetryWait \/ RetryDone
SpecRetry == InitRetry /\ [][NextRetry]_vars
\* A wrapped call in progress goes on: the storage call of an attempt returns
\* or raises (the engine's connect_timeout bounds it), and time.sleep(2) ends.
SpecRetryLive == SpecRetry /\ WF_vars(RetryCall) /\ WF_vars(RetryWait)

(***************************************************************************)
(* The server: every handler that writes, with its storage faults.         *)
(***************************************************************************)
Init == InitStore /\ rt = RtIdle
Next ==
    \/ create_patient({PDocName}, NoFaults(3))
    \/ delete_patient(Scripts(2))
    \/ get_patient
    \/ create_observation(SubjectDocs, NoFaults(3))
    \/ update_observation(SubjectDocs, NoFaults(2))
    \/ delete_observation(Scripts(2))
    \/ get_observation
Spec == Init /\ [][Next]_vars

(***************************************************************************)
(* Creation of one Patient from every document: a client that creates a    *)
(* Patient in an empty store and deletes it again.                         *)
(***************************************************************************)
NextCreate ==
    \/ (patients = <<>> /\ req.op # "create" /\ create_patient(CreationDocs, NoFaults(3)))
    \/ delete_patient(NoFaults(2))
SpecCreate == Init /\ [][NextCreate]_vars

(***************************************************************************)
(* Creation and update of both resource types: one Patient and one         *)
(* Observation, updated any number of times.                               *)
(***************************************************************************)
NextUpdate ==
    \/ (patients = <<>> /\ create_patient(PatientDocs, NoFaults(3)))
    \/ update_patient(PatientDocs, NoFaults(2))
    \/ (observations = <<>> /\ create_observation(ObservationDocs, NoFaults(3)))
    \/ update_observation(ObservationDocs, NoFaults(2))
SpecUpdate == Init /\ [][NextUpdate]_vars

(***************************************************************************)
(* Searches over a growing store.                                          *)
(***************************************************************************)
NextSearch ==
    \/ create_patient({PDocName, PDocMail}, NoFaults(3))
    \/ create_observation({Ob @@ [subject |-> [reference |-> <<PFX>> \o IdText(n)]] : n \in 1..MaxIds},
                          NoFaults(3))
    \/ search_patients(PatientQueries)
    \/ search_observations(ObservationQueries)
SpecSearch == Init /\ [][NextSearch]_vars

(***************************************************************************)
(* The create and update handlers of both types under every storage fault  *)
(* and with documents of every failure class: one Patient and one          *)
(* Observation, updated any number of times.                               *)
(***************************************************************************)
ObFor(n) == Ob @@ [subject |-> [reference |-> <<PFX>> \o IdText(n)]]
OutcomePatientDocs ==
    {PDocName, PDocMail, Pt, Del(PDocName, "resourceType"),
     [PDocName EXCEPT !.resourceType = "Observation"],
     [PDocName EXCEPT !.gender = "martian"],
     Pt @@ [telecom |-> <<[system |-> "email", value |-> MailNoDot]>>]}
OutcomeObservationDocs ==
    {ObFor(1), ObFor(2), Ob, Del(ObFor(1), "resourceType"),
     [ObFor(1) EXCEPT !.resourceType = "Patient"],
     Del(ObFor(1), "status"),
     [ObFor(1) EXCEPT !.status = "done"]}
NextOutcome ==
    \/ (patients = <<>> /\ create_patient(OutcomePatientDocs, Scripts(3)))
    \/ update_patient(OutcomePatientDocs, Scripts(2))
    \/ (observations = <<>> /\ create_observation(OutcomeObservationDocs, Scripts(3)))
    \/ update_observation(OutcomeObservationDocs, Scripts(2))
SpecOutcome == Init /\ [][NextOutcome]_vars

(***************************************************************************)
(* The mappers alone: from_fhir applied to a fresh record, or again to the *)
(* record the last call of the same class left.  req holds the call's      *)
(* arguments and resp what it raised and the record after it.              *)
(***************************************************************************)
ResourceTypes == {"Patient", "Observation", "Bundle"}
\* the documents d, d without its resourceType, and d under every other one
AnyType(docs) ==
    docs \cup {Del(d, "resourceType") : d \in docs}
         \cup {[d EXCEPT !.resourceType = t] : d \in docs, t \in ResourceTypes}
MapperPatientDocs == AnyType(PatientDocs)
MapperObservationDocs == AnyType(ObservationDocs \cup {[resourceType |-> "Observation"]})

Records(type) ==
    {Empty} \cup (IF req.op = "from_fhir" /\ req.type = type THEN {resp.row} ELSE {})

patient_from_fhir ==
    /\ \E self \in Records("Patient"), d \in MapperPatientDocs :
         /\ req' = [op |-> "from_fhir", type |-> "Patient", self |-> self, doc |-> d]
         /\ resp' = Patient_from_fhir(self, d)
    /\ UNCHANGED <<patients, observations, nextId, gone, rt, sessions>>

observation_from_fhir ==
    /\ \E self \in Records("Observation"), d \in MapperObservationDocs :
         /\ req' = [op |-> "from_fhir", type |-> "Observation", self |-> self, doc |-> d]
         /\ resp' = Observation_from_fhir(self, d)
    /\ UNCHANGED <<patients, observations, nextId, gone, rt, sessions>>

NextMapper == patient_from_fhir \/ observation_from_fhir
SpecMapper == Init /\ [][NextMapper]_vars

(***************************************************************************)
(* Concurrent requests and their sessions.  A handler that has its session *)
(* ends (its storage calls end), and the generator is then resumed.        *)
(***************************************************************************)
NextSession ==
    \/ \E r \in Requests : get_db_yield(r)
    \/ \E r \in Requests : handler_exit(r)
    \/ \E r \in Requests : get_db_finally(r)
SpecSession ==
    /\ Init /\ [][NextSession]_vars
    /\ \A r \in Requests : WF_vars(handler_exit(r)) /\ WF_vars(get_db_finally(r))

(***************************************************************************)
(* Properties                                                              *)
(***************************************************************************)
Transient == "OperationalError"
TableOf(type, pats, obs) == IF type = "Patient" THEN pats ELSE obs

\* C1: a wrapped storage operation whose attempts fail twice with a
\* transient error and then succeed returns normally, no error reaching the
\* caller; one whose three attempts all fail with a transient error raises
\* the exception of the third attempt itself, not wrapped and not changed.
\* (A transient failure of the first or second attempt does not end the call.)
C1_RetryContract ==
    /\ rt.hist \in {<<Transient>>, <<Transient, Transient>>} => rt.pc \in {"wait", "call"}
    /\ rt.hist = <<Transient, Transient, "ok">> =>
         rt.pc = "returned" /\ rt.raised.class = "none"
    /\ rt.hist = <<Transient, Transient, Transient>> =>
         /\ rt.pc = "raised"
         /\ rt.raised = [class |-> Transient, attempt |-> 3, wraps |-> "none"]

C1_Witness ==
    /\ rt.op = "commit"
    /\ rt.hist = <<Transient, Transient, Transient>>
    /\ rt.pc = "raised"

\* C2: once a Patient has been deleted, no Observation that referred to it
\* is stored, reading one of the Observations it owned answers 404, and no
\* Observation search returns an entry whose subject is that Patient.
C2_CascadeUnreachable ==
    \A p \in gone.patients :
        /\ \A i \in 1..Len(observations) : observations[i].subject_reference # IdText(p)
        /\ \A o \in gone.observations : GetObservationResult(observations, o).status = 404
        /\ \A q \in ObservationQueries :
             LET entry == SearchObservationsResult(observations, q).body.entry
             IN  \A i \in 1..Len(entry) :
                   /\ entry[i].resource.subject.reference # <<PFX>> \o IdText(p)
                   /\ entry[i].resource.id \notin gone.observations

C2_Witness ==
    /\ Cardinality(gone.observations) >= 2
    /\ req.op = "delete" /\ req.type = "Patient" /\ resp.status = 204

\* C4: a DELETE of an id that is not stored answers 204 with no error and
\* leaves both tables as they were; and after a DELETE answered 204 the id
\* is not stored, so that the same DELETE again is such a request.
C4_DeleteAbsent ==
    [][req'.op = "delete" =>
         /\ req'.id \notin Ids(TableOf(req'.type, patients, observations)) =>
              /\ resp'.status = 204 /\ resp'.exc = "none"
              /\ patients' = patients /\ observations' = observations
         /\ resp'.status = 204 =>
              req'.id \notin Ids(TableOf(req'.type, patients', observations'))]_vars

C4_Witness ==
    /\ req.op = "delete" /\ ~req.stored /\ resp.status = 204
    /\ req.id \in gone.patients

\* C5 (as claimed): every DELETE is answered 204.
C5_DeleteAlways204 == req.op = "delete" => resp.status = 204

\* C5 (amended): a DELETE is answered 204 when no storage call of it fails
\* (the id is not stored, or the record is deleted); when the retried delete
\* or commit raises, the request is answered 500 and the store is unchanged.
C5_DeleteStatus ==
    [][req'.op = "delete" =>
         IF resp'.exc = "none"
         THEN /\ resp'.status = 204
              /\ req'.id \notin Ids(TableOf(req'.type, patients', observations'))
         ELSE /\ resp'.status = 500
              /\ req'.stored
              /\ patients' = patients /\ observations' = observations]_vars

C5_Witness ==
    /\ req.op = "delete" /\ req.type = "Patient"
    /\ resp.status = 500 /\ resp.exc = Transient
    /\ req.id \in Ids(patients)

\* The identification rule of a Patient document, as the data model states it.
C3_Identified(d) ==
    /\ Truthy(d, "name") \/ Truthy(d, "telecom") \/ Truthy(d, "identifier")
    /\ (/\ ~Truthy(d, "name")
        /\ Has(d, "telecom")
        /\ \A i \in 1..Len(d.telecom) :
             Has(d.telecom[i], "system") /\ d.telecom[i].system = "email")
       => \A i \in 1..Len(d.telecom) :
            /\ Has(d.telecom[i], "value")
            /\ d.telecom[i].value # <<>>
            /\ InSeq("@", d.telecom[i].value)
            /\ InSeq(".", d.telecom[i].value)

\* C3: a Patient create is answered 201 only for a document that satisfies
\* the identification rule; a document that violates it is answered 400 and
\* no row is added to the patients table.
C3_CreateValidation ==
    [][(req'.op = "create" /\ req'.type = "Patient") =>
         /\ resp'.status = 201 => C3_Identified(req'.doc)
         /\ ~C3_Identified(req'.doc) => resp'.status = 400 /\ patients' = patients]_vars

C3_Witness ==
    /\ req.op = "create" /\ req.type = "Patient"
    /\ req.doc = Pt @@ [telecom |-> <<[system |-> "email", value |-> MailNoDot]>>]
    /\ resp.status = 400
    /\ patients = <<>>

C8_Accepted == req.op = "create" /\ req.type = "Patient" /\ resp.status = 201
C8_Canonical(text) ==
    Len(text) = 3 /\ Len(text[1]) = 4 /\ Len(text[2]) = 2 /\ Len(text[3]) = 2
C8_Same(D, B, k, present) == IF present THEN Has(B, k) /\ B[k] = D[k] ELSE ~Has(B, k)
C8_Active(D, B) == B.active = (IF Has(D, "active") THEN D.active ELSE TRUE)
\* D's telecom entries that have a system and a value, each cut to system, value and use
C8_Telecom(D) ==
    LET Keep(t) == Has(t, "system") /\ t.system # "" /\ Has(t, "value") /\ t.value # <<>>
        kept == SelectSeq(IF Has(D, "telecom") THEN D.telecom ELSE <<>>, Keep)
    IN  [i \in 1..Len(kept) |-> [k \in {"system", "value", "use"} \cap DOMAIN kept[i] |-> kept[i][k]]]

C10_Resolves(d, pats) ==
    /\ Has(d, "subject") /\ Has(d.subject, "reference")
    /\ \E id \in Ids(pats) : d.subject.reference = <<PFX>> \o IdText(id)
C10_SubjectResolves ==
    /\ \A i \in 1..Len(observations) :
         \E id \in Ids(patients) : observations[i].subject_reference = IdText(id)
    /\ (/\ req.op \in {"create", "update"} /\ req.type = "Observation"
        /\ ~C10_Resolves(req.doc, patients))
       => resp.status >= 400

\* C6 (as claimed): the document answered to a successful update has none of
\* the optional members that the request's document lacks.
C6_Optional ==
    {"name", "gender", "birthDate", "telecom", "address", "subject", "category",
     "effectiveDateTime", "valueQuantity", "referenceRange"}
C6_FullReplacement ==
    (req.op = "update" /\ resp.status = 200) =>
        \A k \in C6_Optional \cap DOMAIN resp.body : Has(req.doc, k)

\* C7 (as claimed): a Patient create or update succeeds only if the record,
\* together with the document, has a non-empty name, telecom or identifier.
C7_Identified(row, d) ==
    Truthy(row, "name") \/ Truthy(row, "telecom") \/ Truthy(d, "identifier")
C7_PopulateIdentifies ==
    (req.op \in {"create", "update"} /\ req.type = "Patient" /\ resp.status \in {200, 201}) =>
        C7_Identified(patients[Lookup(patients, resp.body.id)], req.doc)

\* C9: a search answers total = the number N of stored records that match
\* the filters, and min(count, max(0, N - offset)) entries, each a different
\* matching record.
C9_Matches(type, row, q) ==
    IF type = "Patient" THEN PatientMatches(row, q) ELSE ObservationMatches(row, q)
C9_Pagination ==
    req.op = "search" =>
        LET table == TableOf(req.type, patients, observations)
            q == req.query
            matching == {table[i].id : i \in {j \in 1..Len(table) :
                                               C9_Matches(req.type, table[j], q)}}
            N == Cardinality(matching)
            k == IF Has(q, "count") THEN q.count ELSE 10
            o == IF Has(q, "offset") THEN q.offset ELSE 0
            entry == resp.body.entry
        IN  /\ resp.status = 200
            /\ resp.body.total = N
            /\ Len(entry) = Min(k, Max(0, N - o))
            /\ \A i \in 1..Len(entry) : entry[i].resource.id \in matching
            /\ \A i, j \in 1..Len(entry) :
                 entry[i].resource.id = entry[j].resource.id => i = j

C9_Witness ==
    /\ req.op = "search" /\ req.type = "Observation"
    /\ Has(req.query, "patient")
    /\ Len(observations) = 2
    /\ Has(req.query, "count") /\ req.query.count = 2
    /\ Has(req.query, "offset") /\ req.query.offset = 1
    /\ resp.body.total = 2 /\ Len(resp.body.entry) = 1

\* C11 (as claimed): a mapper raises its validation error exactly when the
\* document has a resourceType that differs from the mapper's type, and then
\* leaves the record as it was; a document without resourceType is not
\* rejected.
C11_TypeCheckAsClaimed ==
    req.op = "from_fhir" =>
        /\ resp.exc = "ValueError" <=>
              (Has(req.doc, "resourceType") /\ req.doc.resourceType # req.type)
        /\ resp.exc = "ValueError" => resp.row = req.self

\* C11 (amended): a mapper raises its validation error exactly when the
\* document's resourceType is missing or differs from the mapper's type, and
\* then leaves the record as it was; it raises nothing else.
C11_TypeCheck ==
    req.op = "from_fhir" =>
        /\ resp.exc = "ValueError" <=>
              (~Has(req.doc, "resourceType") \/ req.doc.resourceType # req.type)
        /\ resp.exc = "ValueError" => resp.row = req.self
        /\ resp.exc \in {"none", "ValueError"}

C11_Witness ==
    /\ req.op = "from_fhir"
    /\ ~Has(req.doc, "resourceType") /\ Has(req.doc, "name")
    /\ req.self # Empty
    /\ resp.exc = "ValueError" /\ resp.row = req.self

\* The failure classes of a create or update request, read off the request.
\* a validation failure: the document is not of the handler's type, or (a
\* Patient create) it does not satisfy the identification rule
C12_Invalid(r) ==
    \/ ~(Has(r.doc, "resourceType") /\ r.doc.resourceType = r.type)
    \/ r.op = "create" /\ r.type = "Patient" /\ ~C3_Identified(r.doc)
\* what a wrapped call whose attempts end as `run` gives its caller: the first
\* outcome that is not a transient failure, or the transient failure when
\* every attempt has one
C12_Ends(run) ==
    IF \A i \in 1..Len(run) : run[i] = Transient THEN Transient
    ELSE run[CHOOSE i \in 1..Len(run) :
               run[i] # Transient /\ \A j \in 1..(i - 1) : run[j] = Transient]
\* the storage failure of the request: that of its first wrapped call that fails
C12_StorageFailure(sc) ==
    IF \A i \in 1..Len(sc) : C12_Ends(sc[i]) = "ok" THEN "none"
    ELSE C12_Ends(sc[CHOOSE i \in 1..Len(sc) :
                       C12_Ends(sc[i]) # "ok" /\ \A j \in 1..(i - 1) : C12_Ends(sc[j]) = "ok"])
C12_Success(r) == IF r.op = "create" THEN 201 ELSE 200
C12_Serialized(type, table, id) ==
    IF type = "Patient" THEN Patient_to_fhir(table[Lookup(table, id)])
    ELSE Observation_to_fhir(table[Lookup(table, id)])

\* C12: in a create or update of either type (of a stored record, for an
\* update), a validation failure is answered 400 with both tables unchanged
\* and nothing but a validation failure is answered 400; a storage call that
\* fails, after its three attempts on transient failures or at once on any
\* other failure, is answered 500, as is a statement the store refuses; and
\* a request in which nothing fails is answered 201 / 200 with the
\* serialized stored record.
C12_OutcomeClasses ==
    [][(req'.op \in {"create", "update"} /\ resp'.status # 404) =>
         LET r == req'
             failure == C12_StorageFailure(r.faults)
             table == TableOf(r.type, patients', observations')
         IN  /\ resp'.status \in {400, 500, C12_Success(r)}
             /\ C12_Invalid(r) <=> resp'.status = 400
             /\ resp'.status = 400 => patients' = patients /\ observations' = observations
             /\ (~C12_Invalid(r) /\ failure # "none") =>
                   resp'.status = 500 /\ resp'.exc \in {failure, "IntegrityError", "DataError"}
             /\ (~C12_Invalid(r) /\ failure = "none") =>
                   \/ resp'.status = 500 /\ resp'.exc \in {"IntegrityError", "DataError"}
                   \/ /\ resp'.status = C12_Success(r) /\ resp'.exc = "none"
                      /\ resp'.body.id \in Ids(table)
                      /\ resp'.body = C12_Serialized(r.type, table, resp'.body.id)
             /\ resp'.exc = "none" <=> resp'.status = C12_Success(r)]_vars

C12_Witness ==
    /\ req.op = "update" /\ req.type = "Observation"
    /\ req.faults = <<Exhausts, AllOk>>
    /\ ~C12_Invalid(req)
    /\ resp.status = 500 /\ resp.exc = Transient

\* The attempts of the call in progress, as the wrapper's counters and the
\* history of the outcomes record them.
C13_Bounded ==
    /\ rt.calls = Len(rt.hist) /\ rt.calls <= 3
    /\ rt.waits <= 2 /\ rt.slept = 2 * rt.waits
    /\ rt.pc = "call" => rt.attempt = rt.calls + 1 /\ rt.waits = rt.calls
    /\ rt.pc = "wait" => rt.calls \in 1..2 /\ rt.waits = rt.calls - 1
    /\ rt.pc \in {"returned", "raised"} => rt.calls >= 1 /\ rt.waits = rt.calls - 1
\* every attempt but the last one made ended in a transient failure, and the
\* wrapper goes on (waits) only after one
C13_OnlyAfterTransient ==
    /\ \A i \in 1..(Len(rt.hist) - 1) : rt.hist[i] = Transient
    /\ rt.pc = "wait" => rt.hist[Len(rt.hist)] = Transient
\* a success is returned and a failure of another class raised by the
\* attempt that met it; as the outcome of the first attempt, after exactly
\* one invocation and no wait
C13_EndsAtOnce ==
    /\ (rt.hist # <<>> /\ rt.hist[Len(rt.hist)] = "ok") => rt.pc = "returned"
    /\ (rt.hist # <<>> /\ rt.hist[Len(rt.hist)] \notin {"ok", Transient}) =>
          /\ rt.pc = "raised"
          /\ rt.raised.class = rt.hist[Len(rt.hist)] /\ rt.raised.attempt = rt.calls
    /\ (rt.pc \in {"returned", "raised"} /\ rt.hist[1] # Transient) =>
          rt.calls = 1 /\ rt.waits = 0

C14_Open == {r \in Requests : sessions[r].opened > sessions[r].closed}
C14_Scoped ==
    \A r \in Requests :
        /\ sessions[r].opened <= 1 /\ sessions[r].closed <= sessions[r].opened
        /\ sessions[r].pc = "new" => sessions[r].opened = 0
        /\ sessions[r].pc \in {"handler", "finally"} =>
              sessions[r].opened = 1 /\ sessions[r].closed = 0
        /\ sessions[r].pc = "done" => sessions[r].opened = 1 /\ sessions[r].closed = 1

\* C14: a request opens one session and never a second one, the session is
\* open while the handler runs and closed once, never twice, when the
\* request is over, whichever way the handler ended; once every request is
\* over no session is open; and a session that was opened is closed in the
\* end, however the requests interleave.
C14_SessionScope ==
    /\ []C14_Scoped
    /\ []((\A r \in Requests : sessions[r].pc = "done") => C14_Open = {})
    /\ \A r \in Requests : (sessions[r].opened = 1) ~> (sessions[r].closed = 1)

C14_Witness ==
    /\ \A r \in Requests : sessions[r].pc = "done"
    /\ sessions[1].exit = "unhandled" /\ sessions[2].exit = "not_found"
    /\ sessions[3].exit = "validation"
    /\ C14_Open = {}

====
